---- MODULE Spec2Model ----
(***************************************************************************)
(* A model of the OperationContext lifecycle state machine and of the      *)
(* condition variable (Cond) it waits on.  One OperationContext is         *)
(* modelled, together with its callers: the owning call tree, the timer    *)
(* registered by setTimeout, the background processes registered through   *)
(* addBackgroundProcess and the callers suspended in wait().               *)
(*                                                                         *)
(* Every handler that JavaScript runs to completion (a synchronous call, a *)
(* timer callback, a promise reaction, the continuation of an await) is    *)
(* one action.                                                             *)
(***************************************************************************)
EXTENDS Integers, Sequences, FiniteSets, TLC

\* ------------------------------------------------------------------ bounds
MaxTime == 2
MaxStack == 2
MaxProcs == 1
MaxWaits == 2
MaxTimers == 2
MaxEntries == 2
MaxResolved == 4
MaxFrames == 3

Values == {"a", "b"}
WaitIds == 1..MaxWaits
RejectMessages == {"boom"}
TimerNames == {"x", "y"}

\* Date.now() when the context is constructed
StartedAt == 1

VARIABLES
    now,            \* the wall clock read by Date.now()
    status,         \* OperationContext.status
    endedAt,        \* OperationContext.endedAt; 0 is undefined
    stack,          \* OperationContext.stack: the trace entries
    errors,         \* OperationContext.errors
    timeout,        \* OperationContext.timeout: the timer handle
    timeoutError,   \* OperationContext.timeoutError
    procs,          \* OperationContext.activeProcesses and the promises behind them
    lockState,      \* Cond[kLockState]
    waiters,        \* Cond[kWaiters]: the queued waiters, oldest first
    kTimer,         \* Cond[kTimer]: the stall-diagnostic interval is active
    waits,          \* the calls to wait(), each with the promise it awaits
    entries,        \* OperationContext.metrics.entries
    cumulative,     \* OperationContext.metrics.cumulative
    timers,         \* the handles returned by startTimer, with what each closes over
    resolved,       \* history: the waiters in the order the Cond resolved them
    json,           \* the last object returned by toJSON() or toShortJSON()
    setCalls,       \* history: the arguments of the setValues calls made while running
    timerEnds,      \* history: the name and duration of every timer ended
    timed           \* the calls to timePromise(), each with the promise it awaits

vars == <<now, status, endedAt, stack, errors, timeout, timeoutError, procs,
          lockState, waiters, kTimer, waits, entries, cumulative, timers,
          resolved, json, setCalls, timerEnds, timed>>

\* the history of the calls, the last serialization and the timePromise calls
\* in flight, which no handler of the operation reads
history == <<setCalls, timerEnds, json, timed>>

\* ------------------------------------------------------------ error values
NoError == [kind |-> "none", id |-> 0, message |-> "", failedAt |-> 0]

\* new Error(message): a plain error, not bound to the context
PlainError(message) ==
    [kind |-> "Error", id |-> 0, message |-> message, failedAt |-> 0]

\* new OperationError(message, context); id is the object's identity
OperationError(id, message, t) ==
    [kind |-> "OperationError", id |-> id, message |-> message, failedAt |-> t]

MsgTimedOut == "Operation timed out"
MsgNotRunning == "Operation is not running"
MsgCannotChange == "Cannot change status"
MsgSecondTimeout == "Cannot set another timeout on the operation"
MsgBackground == "Cannot end an operation with background processes"
MsgUser == "user error"

\* --------------------------------------------------------- the whole state
\* The handlers below are functions from state record to state record, so
\* that a handler can call another one the way the code does.
Cur ==
    [now |-> now, status |-> status, endedAt |-> endedAt, stack |-> stack,
     errors |-> errors, timeout |-> timeout, timeoutError |-> timeoutError,
     procs |-> procs, lockState |-> lockState, waiters |-> waiters,
     kTimer |-> kTimer, waits |-> waits, entries |-> entries,
     cumulative |-> cumulative, timers |-> timers, resolved |-> resolved]

\* (the quantifier has the state computed once)
Commit(state) == \E s \in {state} :
    /\ now' = s.now
    /\ status' = s.status
    /\ endedAt' = s.endedAt
    /\ stack' = s.stack
    /\ errors' = s.errors
    /\ timeout' = s.timeout
    /\ timeoutError' = s.timeoutError
    /\ procs' = s.procs
    /\ lockState' = s.lockState
    /\ waiters' = s.waiters
    /\ kTimer' = s.kTimer
    /\ waits' = s.waits
    /\ entries' = s.entries
    /\ cumulative' = s.cumulative
    /\ timers' = s.timers
    /\ resolved' = s.resolved

\* Bind(x, F) is F(x), with x computed once.
Bind(x, F(_)) == CHOOSE y \in {F(v) : v \in {x}} : TRUE

\* The result of a call: the state it leaves, the error it throws, if any, and
\* the error it returns, if any.
Ok(s) == [s |-> s, thrown |-> NoError, value |-> NoError]
Throw(s, e) == [s |-> s, thrown |-> e, value |-> NoError]
Return(s, e) == [s |-> s, thrown |-> NoError, value |-> e]
Threw(r) == r.thrown.kind # "none"

\* `throw r` for the result r of a call that returns an error: r's own throw
\* if the call threw instead
ThrowValue(r) == IF Threw(r) THEN r ELSE Throw(r.s, r.value)

\* -------------------------------------------------- promises awaited by wait()
\* The promise Promise.all(activeProcesses) of a wait() call that saw the
\* processes in snap.
AllState(s, snap) ==
    IF \E i \in snap : s.procs[i].wrapper = "rejected" THEN "rejected"
    ELSE IF \A i \in snap : s.procs[i].wrapper = "fulfilled" THEN "fulfilled"
    ELSE "pending"

\* What the settling of Promise.all wakes a suspended wait() call with.  The
\* other promise of the race, that of Cond.wait(), wakes it in CondResolve.
Awaited(s, w) ==
    LET x == s.waits[w] IN
    IF x.st # "pending" THEN x.st
    ELSE IF x.snap # {} /\ AllState(s, x.snap) = "rejected" THEN "wokenRej"
    ELSE IF x.snap # {} /\ AllState(s, x.snap) = "fulfilled" THEN "woken"
    ELSE "pending"

Settle(state) ==
    Bind(state, LAMBDA s :
        [s EXCEPT !.waits =
            [w \in WaitIds |-> [s.waits[w] EXCEPT !.st = Awaited(s, w)]]])

\* ------------------------------------------------------------------- Cond
\* the resolve closure of Cond.wait(): clears the stall timer and resolves
\* the promise, which wakes the wait() call suspended on it
CondResolve(s, w) ==
    [s EXCEPT !.kTimer = FALSE,
              !.resolved = Append(@, w),
              !.waits[w].st = IF @ = "pending" THEN "woken" ELSE @]

Cond_lock(s) == [s EXCEPT !.lockState = TRUE]

\* signal() taking the newest waiter: pop() for shift()
Cond_signalLast(state) ==
    Bind(state, LAMBDA s :
        IF s.waiters = <<>> THEN s
        ELSE CondResolve([s EXCEPT !.waiters = SubSeq(@, 1, Len(@) - 1)],
                         s.waiters[Len(s.waiters)]))

\* signal(): the oldest waiter leaves the queue and is resolved
Cond_signal(state) ==
    Bind(state, LAMBDA s :
        IF s.waiters = <<>> THEN s
        ELSE CondResolve([s EXCEPT !.waiters = Tail(s.waiters)], Head(s.waiters)))

\* the loop of unlock(): signal() while waiters are queued
RECURSIVE Cond_drain(_)
Cond_drain(state) ==
    Bind(state, LAMBDA s :
        IF s.waiters = <<>> THEN s ELSE Cond_drain(Cond_signal(s)))

\* unlock() resolving the waiters without releasing the state
Cond_unlockDrainOnly(s) == Cond_drain(s)

Cond_unlock(s) == Cond_drain([s EXCEPT !.lockState = FALSE])

\* wait() that enqueues the caller whatever the state
Cond_waitAlwaysQueue(state, w) ==
    Bind([state EXCEPT !.kTimer = TRUE], LAMBDA t :
        [t EXCEPT !.waiters = Append(t.waiters, w)])

Cond_wait(state, w) ==
    Bind([state EXCEPT !.kTimer = TRUE], LAMBDA t :
        IF ~t.lockState THEN CondResolve(t, w)
        ELSE [t EXCEPT !.waiters = Append(t.waiters, w)])

\* Cond.wait() called by w, who awaits the promise it returns
CondWaitCall(s, w) == Cond_wait([s EXCEPT !.waits[w].st = "pending"], w)

\* ------------------------------------------------------- OperationContext
isRunning(s) == s.status = "running"

\* A percentage is the quotient duration / totalDuration, kept as its two
\* terms: the division by a zero totalDuration gives NaN or Infinity.
Ratio(num, den) == [num |-> num, den |-> den]

\* percentage: -1, "not known until the end of the operation"
Sentinel == Ratio(-1, 1)

\* The comparator (a, b) => b.totalPercentage - a.totalPercentage puts b
\* before a when it is positive.  Both percentages have the denominator
\* totalDuration; with a zero denominator they are NaN or Infinity, their
\* difference is NaN and the sort keeps the order.
Before(b, a) ==
    /\ a.totalPercentage.den > 0
    /\ b.totalPercentage.num > a.totalPercentage.num

\* e put into a sorted sequence, behind the elements that it does not precede
RECURSIVE SortInsert(_, _)
SortInsert(sorted, e) ==
    IF sorted = <<>> THEN <<e>>
    ELSE IF Before(e, sorted[Len(sorted)])
    THEN Append(SortInsert(SubSeq(sorted, 1, Len(sorted) - 1), e),
                sorted[Len(sorted)])
    ELSE Append(sorted, e)

\* Array.prototype.sort with that comparator: a stable sort
RECURSIVE SortCumulative(_)
SortCumulative(q) ==
    IF q = <<>> THEN <<>>
    ELSE SortInsert(SortCumulative(SubSeq(q, 1, Len(q) - 1)), q[Len(q)])

\* the end of setStatus(): the percentages of the metrics are filled in and
\* the cumulative metrics sorted, biggest first
finalizeMetrics(s) ==
    LET totalDuration == s.endedAt - StartedAt IN
    [s EXCEPT
        !.entries = [k \in 1..Len(s.entries) |->
            [s.entries[k] EXCEPT
                !.percentage = Ratio(s.entries[k].duration, totalDuration)]],
        !.cumulative = SortCumulative([k \in 1..Len(s.cumulative) |->
            [s.cumulative[k] EXCEPT
                !.totalPercentage =
                    Ratio(s.cumulative[k].totalDuration, totalDuration)]])]

\* setStatus() without waitCond.unlock()
setStatusNoUnlock(s, st) ==
    IF s.status # "running" THEN Throw(s, PlainError(MsgCannotChange))
    ELSE Ok(finalizeMetrics([s EXCEPT !.status = st, !.endedAt = s.now]))

\* setStatus() without the assignment of endedAt
setStatusNoStamp(s, st) ==
    IF s.status # "running" THEN Throw(s, PlainError(MsgCannotChange))
    ELSE Ok(finalizeMetrics(Cond_unlock([s EXCEPT !.status = st])))

\* setStatus() without the guard against leaving a status other than running
setStatusUnguarded(s, st) ==
    Ok(finalizeMetrics(Cond_unlock([s EXCEPT !.status = st, !.endedAt = s.now])))

setStatus(s, st) ==
    IF s.status # "running" THEN Throw(s, PlainError(MsgCannotChange))
    ELSE Ok(finalizeMetrics(
                Cond_unlock([s EXCEPT !.status = st, !.endedAt = s.now])))

\* createError() recording the error before it changes the status
createErrorRecordFirst(s, message) ==
    Bind(OperationError(Len(s.errors) + 1, message, s.now), LAMBDA err :
        Bind(setStatus([s EXCEPT !.errors = Append(@, err),
                                 !.endedAt = IF @ = 0 THEN s.now ELSE @],
                       "failed"),
             LAMBDA r : IF Threw(r) THEN r ELSE Return(r.s, err)))

createError(s, message) ==
    Bind(setStatus(IF s.endedAt = 0 THEN [s EXCEPT !.endedAt = s.now] ELSE s,
                   "failed"),
         LAMBDA r :
            IF Threw(r) THEN r
            ELSE Bind(OperationError(Len(r.s.errors) + 1, message, r.s.now),
                      LAMBDA err :
                         Return([r.s EXCEPT !.errors = Append(@, err)], err)))

\* A captured stack (error.stack without its first line) is the sequence of
\* its lines, innermost frame first.  A line is told by the path of its
\* frame ("lib" is in the library's directory, "libtest" in its __test__
\* directory, "ext" elsewhere) and by whether it still has the indentation
\* the engine prints it with.
Frames == {"lib", "libtest", "ext"}
Line(frame) == [frame |-> frame, indented |-> TRUE]

\* the frame of setValues itself, then that of a caller outside the library
CallerStack == <<Line("lib"), Line("ext")>>

\* { values, error: new Error(), createdAt: Date.now() }
Entry(values, frames, t) == [values |-> values, error |-> frames, createdAt |-> t]

\* no object serialized yet
NoJSON == [form |-> "none"]

\* checkpoint() without the isRunning() test
checkpointTimeoutOnly(s) ==
    IF s.timeoutError # NoError THEN Throw(s, s.timeoutError) ELSE Ok(s)

\* checkpoint() testing isRunning() before timeoutError
checkpointRunningFirst(s) ==
    IF ~isRunning(s) THEN Bind(createError(s, MsgNotRunning), ThrowValue)
    ELSE IF s.timeoutError # NoError THEN Throw(s, s.timeoutError)
    ELSE Ok(s)

checkpoint(s) ==
    IF s.timeoutError # NoError THEN Throw(s, s.timeoutError)
    ELSE IF ~isRunning(s) THEN Bind(createError(s, MsgNotRunning), ThrowValue)
    ELSE Ok(s)

\* setValues() putting the new entry first
setValuesUnshift(s, values) ==
    Bind(checkpoint(s), LAMBDA r :
        IF Threw(r) THEN r
        ELSE Ok([r.s EXCEPT !.stack =
                    <<Entry(values, CallerStack, r.s.now)>> \o @]))

\* setValues(values) called with the frames below it on the call stack:
\* new Error() captures them
setValuesFrom(s, values, frames) ==
    Bind(checkpoint(s), LAMBDA r :
        IF Threw(r) THEN r
        ELSE Ok([r.s EXCEPT !.stack =
                    Append(@, Entry(values, frames, r.s.now))]))

\* setValues(values) called from outside the library
setValues(s, values) == setValuesFrom(s, values, CallerStack)

\* cancel() writing the status itself, with neither checkpoint() nor setStatus()
cancelUnchecked(s) ==
    Ok(finalizeMetrics(Cond_unlock([s EXCEPT !.status = "cancelled",
                                             !.endedAt = s.now])))

\* cancel() setting the status to ended
cancelAsEnd(s) ==
    Bind(checkpoint(s), LAMBDA r :
        IF Threw(r) THEN r ELSE setStatus(r.s, "ended"))

cancel(s) ==
    Bind(checkpoint(s), LAMBDA r :
        IF Threw(r) THEN r ELSE setStatus(r.s, "cancelled"))

\* setTimeout() without the test of this.timeout
setTimeoutAgain(s) == Ok([s EXCEPT !.timeout = "scheduled"])

setTimeout(s) ==
    IF s.timeout # "none" THEN Bind(createError(s, MsgSecondTimeout), ThrowValue)
    ELSE Ok([s EXCEPT !.timeout = "scheduled"])

\* the timer callback stamping timeoutError without failing the operation
timeoutCallbackStampOnly(s) ==
    IF isRunning(s)
    THEN [s EXCEPT !.timeoutError =
             OperationError(Len(s.errors) + 1, MsgTimedOut, s.now)]
    ELSE s

\* the timer callback with its isRunning() test inverted
timeoutCallbackInverted(s) ==
    IF ~isRunning(s)
    THEN Bind(createError(s, MsgTimedOut), LAMBDA r :
            IF Threw(r) THEN r.s ELSE [r.s EXCEPT !.timeoutError = r.value])
    ELSE s

\* the timer callback stamping timeoutError whatever the status
timeoutCallbackUnguarded(s) ==
    IF isRunning(s)
    THEN Bind(createError(s, MsgTimedOut), LAMBDA r :
            IF Threw(r) THEN r.s ELSE [r.s EXCEPT !.timeoutError = r.value])
    ELSE [s EXCEPT !.timeoutError =
             OperationError(Len(s.errors) + 1, MsgTimedOut, s.now)]

\* the timer callback failing the operation without recording the error
timeoutCallbackNoRecord(s) ==
    IF isRunning(s)
    THEN Bind(setStatus(s, "failed"), LAMBDA r :
            [r.s EXCEPT !.timeoutError =
                OperationError(Len(s.errors) + 1, MsgTimedOut, s.now)])
    ELSE s

\* the callback given to setTimeout
timeoutCallback(s) ==
    IF isRunning(s)
    THEN Bind(createError(s, MsgTimedOut), LAMBDA r :
            IF Threw(r) THEN r.s ELSE [r.s EXCEPT !.timeoutError = r.value])
    ELSE s

clearTimeout(s) ==
    IF s.timeout = "scheduled" THEN [s EXCEPT !.timeout = "cleared"] ELSE s

\* end() without the test of activeProcesses
endIgnoringProcesses(s) ==
    Bind(checkpoint(s), LAMBDA r :
        IF Threw(r) THEN r
        ELSE setStatus(IF r.s.timeout # "none" THEN clearTimeout(r.s) ELSE r.s,
                       "ended"))

\* end() throwing a plain error, without createError, when processes are
\* registered
endPlainThrow(s) ==
    Bind(checkpoint(s), LAMBDA r :
        IF Threw(r) THEN r
        ELSE IF Len(r.s.procs) > 0
        THEN Throw(r.s, PlainError(MsgBackground))
        ELSE setStatus(IF r.s.timeout # "none" THEN clearTimeout(r.s) ELSE r.s,
                       "ended"))

\* end() refusing only while a registered process has not settled
endPendingOnly(s) ==
    Bind(checkpoint(s), LAMBDA r :
        IF Threw(r) THEN r
        ELSE IF \E i \in 1..Len(r.s.procs) : r.s.procs[i].wrapper = "pending"
        THEN Bind(createError(r.s, MsgBackground), ThrowValue)
        ELSE setStatus(IF r.s.timeout # "none" THEN clearTimeout(r.s) ELSE r.s,
                       "ended"))

\* end() without clearTimeout
endNoClear(s) ==
    Bind(checkpoint(s), LAMBDA r :
        IF Threw(r) THEN r
        ELSE IF Len(r.s.procs) > 0
        THEN Bind(createError(r.s, MsgBackground), ThrowValue)
        ELSE setStatus(r.s, "ended"))

end(s) ==
    Bind(checkpoint(s), LAMBDA r :
        IF Threw(r) THEN r
        ELSE IF Len(r.s.procs) > 0
        THEN Bind(createError(r.s, MsgBackground), ThrowValue)
        ELSE setStatus(IF r.s.timeout # "none" THEN clearTimeout(r.s) ELSE r.s,
                       "ended"))

NewProcess == [under |-> "pending", message |-> "", wrapper |-> "pending"]

\* addBackgroundProcess() checkpointing before it registers the process
addBackgroundProcessCheckFirst(s) ==
    Bind(checkpoint(s), LAMBDA r :
        IF Threw(r) THEN r ELSE Ok([r.s EXCEPT !.procs = Append(@, NewProcess)]))

addBackgroundProcess(s) ==
    checkpoint([s EXCEPT !.procs = Append(@, NewProcess)])

\* the reactions of addBackgroundProcess with onfulfilled and onrejected swapped
processSettledSwapped(s, i) ==
    IF s.procs[i].under = "rejected"
    THEN Settle([s EXCEPT !.procs[i].wrapper = "fulfilled"])
    ELSE Bind(createError(s, s.procs[i].message), LAMBDA r :
            Settle([r.s EXCEPT !.procs[i].wrapper =
                       IF Threw(r) THEN "rejected" ELSE "fulfilled"]))

\* the reactions of addBackgroundProcess with the rejection swallowed
processSettledSwallow(s, i) ==
    Settle([s EXCEPT !.procs[i].wrapper = "fulfilled"])

\* the reactions registered by promise.then(...) in addBackgroundProcess,
\* run once the process's promise has settled
processSettled(s, i) ==
    IF s.procs[i].under = "resolved"
    THEN Settle([s EXCEPT !.procs[i].wrapper = "fulfilled"])
    ELSE Bind(createError(s, s.procs[i].message), LAMBDA r :
            Settle([r.s EXCEPT !.procs[i].wrapper =
                       IF Threw(r) THEN "rejected" ELSE "fulfilled"]))

\* wait() up to its await.  A Cond.wait() promise that is already resolved
\* wins the race against Promise.all, which needs one more reaction to settle.
wait(s, w) ==
    Settle(Cond_wait(
        [s EXCEPT !.waits[w].st = "pending",
                  !.waits[w].snap =
                      IF Len(s.procs) > 0 THEN 1..Len(s.procs) ELSE {}], w))

\* wait() ending the operation after its await
waitResumeEnding(s, w) ==
    IF s.waits[w].st = "wokenRej"
    THEN [s EXCEPT !.waits[w] = [st |-> "rejected", snap |-> {},
                                 err |-> PlainError(MsgCannotChange)]]
    ELSE Bind(setStatus(s, "ended").s, LAMBDA u :
            IF Len(u.errors) > 0
            THEN [u EXCEPT !.waits[w] = [st |-> "rejected", snap |-> {},
                                         err |-> u.errors[1]]]
            ELSE [u EXCEPT !.waits[w] = [st |-> "resolved", snap |-> {},
                                         err |-> NoError]])

\* wait() after its await
waitResume(s, w) ==
    IF s.waits[w].st = "wokenRej"
    THEN [s EXCEPT !.waits[w] = [st |-> "rejected", snap |-> {},
                                 err |-> PlainError(MsgCannotChange)]]
    ELSE Bind(Cond_unlock(s), LAMBDA u :
            IF Len(u.errors) > 0
            THEN [u EXCEPT !.waits[w] = [st |-> "rejected", snap |-> {},
                                         err |-> u.errors[1]]]
            ELSE [u EXCEPT !.waits[w] = [st |-> "resolved", snap |-> {},
                                         err |-> NoError]])

\* ---------------------------------------------------------- serialization
\* line.trim()
Trim(line) == [line EXCEPT !.indented = FALSE]

\* the filter of createLongJSONFromEntry: a line outside the library's
\* directory is kept; one inside it is kept only under NODE_ENV=test and in
\* the __test__ directory
KeepLine(line, envTest) ==
    IF line.frame = "ext" THEN TRUE
    ELSE IF envTest THEN line.frame = "libtest"
    ELSE FALSE

\* createLongJSONFromEntry subtracting the entry's time from the previous one's
createLongJSONFromEntryReversed(entry, index, array, envTest) ==
    [values |-> entry.values,
     stacktrace |-> SelectSeq([k \in 1..Len(entry.error) |-> Trim(entry.error[k])],
                              LAMBDA line : KeepLine(line, envTest)),
     createdAt |-> entry.createdAt,
     sinceLastEntry |-> IF index > 0
                        THEN array[index].createdAt - entry.createdAt
                        ELSE -1]

\* the callback of this.stack.map: index counts from 0, so that the previous
\* entry, entries[index - 1] in the source, is the index-th of the array
createLongJSONFromEntry(entry, index, array, envTest) ==
    [values |-> entry.values,
     stacktrace |-> SelectSeq([k \in 1..Len(entry.error) |-> Trim(entry.error[k])],
                              LAMBDA line : KeepLine(line, envTest)),
     createdAt |-> entry.createdAt,
     sinceLastEntry |-> IF index > 0
                        THEN entry.createdAt - array[index].createdAt
                        ELSE -1]

\* .split('\n').slice(1, 2): the first line after the message, if any
createShortJSONFromEntry(entry) ==
    [values |-> entry.values,
     stacktrace |-> SubSeq(entry.error, 1, IF Len(entry.error) > 0 THEN 1 ELSE 0),
     createdAt |-> entry.createdAt]

\* uuid.v4(), drawn at construction
OperationId == "uuid"

toJSON(s, envTest) ==
    [form |-> "long",
     status |-> s.status,
     operationID |-> OperationId,
     trace |-> [k \in 1..Len(s.stack) |->
                   createLongJSONFromEntry(s.stack[k], k - 1, s.stack, envTest)],
     metrics |-> [entries |-> s.entries, cumulative |-> s.cumulative],
     startedAt |-> StartedAt,
     endedAt |-> s.endedAt]

\* toShortJSON() listing the newest entry first
toShortJSONReversed(s) ==
    [form |-> "short",
     status |-> s.status,
     operationID |-> OperationId,
     trace |-> [k \in 1..Len(s.stack) |->
                   createShortJSONFromEntry(s.stack[Len(s.stack) + 1 - k])],
     metrics |-> [entries |-> s.entries, cumulative |-> s.cumulative],
     startedAt |-> StartedAt,
     endedAt |-> s.endedAt]

toShortJSON(s) ==
    [form |-> "short",
     status |-> s.status,
     operationID |-> OperationId,
     trace |-> [k \in 1..Len(s.stack) |-> createShortJSONFromEntry(s.stack[k])],
     metrics |-> [entries |-> s.entries, cumulative |-> s.cumulative],
     startedAt |-> StartedAt,
     endedAt |-> s.endedAt]

\* startTimer(name): the handle closes over name and startedAt
startTimer(s, name) ==
    [s EXCEPT !.timers = Append(@, [name |-> name, startedAt |-> s.now])]

\* this.metrics.cumulative.find((entry) => entry.name === name): the index of
\* the first entry with that name, 0 if there is none
FindCumulative(q, name) ==
    IF \E k \in 1..Len(q) : q[k].name = name
    THEN CHOOSE k \in 1..Len(q) :
            /\ q[k].name = name
            /\ \A j \in 1..(k - 1) : q[j].name # name
    ELSE 0

\* end() of a handle that never looks for the cumulative entry of its name
timerEndAlwaysPush(s, h) ==
    LET name == s.timers[h].name
        startedAt == s.timers[h].startedAt
        duration == s.now - startedAt
    IN  [s EXCEPT
            !.entries = Append(@, [name |-> name, startedAt |-> startedAt,
                                   duration |-> duration,
                                   percentage |-> Sentinel]),
            !.cumulative = Append(@, [name |-> name, numberOfEvents |-> 1,
                                      totalDuration |-> duration,
                                      totalPercentage |-> Sentinel])]

\* the body of a handle's end() putting the new discrete entry first
recordMetricFirst(s, name, startedAt, duration) ==
    LET pushed == IF FindCumulative(s.cumulative, name) = 0
                  THEN Append(s.cumulative,
                              [name |-> name, numberOfEvents |-> 0,
                               totalDuration |-> 0, totalPercentage |-> Sentinel])
                  ELSE s.cumulative
        k == FindCumulative(pushed, name)
    IN  [s EXCEPT
            !.entries = <<[name |-> name, startedAt |-> startedAt,
                           duration |-> duration,
                           percentage |-> Sentinel]>> \o @,
            !.cumulative = [pushed EXCEPT
                ![k].numberOfEvents = @ + 1,
                ![k].totalDuration = @ + duration]]

\* the body of a handle's end() once the duration is known: one discrete
\* entry is pushed and the cumulative entry of the name, created if there is
\* none, gains one event and the duration
recordMetric(s, name, startedAt, duration) ==
    LET pushed == IF FindCumulative(s.cumulative, name) = 0
                  THEN Append(s.cumulative,
                              [name |-> name, numberOfEvents |-> 0,
                               totalDuration |-> 0, totalPercentage |-> Sentinel])
                  ELSE s.cumulative
        k == FindCumulative(pushed, name)
    IN  [s EXCEPT
            !.entries = Append(@, [name |-> name, startedAt |-> startedAt,
                                   duration |-> duration,
                                   percentage |-> Sentinel]),
            !.cumulative = [pushed EXCEPT
                ![k].numberOfEvents = @ + 1,
                ![k].totalDuration = @ + duration]]

\* end() of a handle that checkpoints first and gives up when that throws
timerEndCheckpointed(s, h) ==
    Bind(checkpoint(s), LAMBDA r :
        IF Threw(r) THEN r.s
        ELSE recordMetric(r.s, r.s.timers[h].name, r.s.timers[h].startedAt,
                          r.s.now - r.s.timers[h].startedAt))

\* end() of the handle h returned by startTimer
timerEnd(s, h) ==
    recordMetric(s, s.timers[h].name, s.timers[h].startedAt,
                 s.now - s.timers[h].startedAt)

\* ------------------------------------------------------------------- Init
\* ------------------------------------------------------------- timePromise
\* how a promise stands: pending, fulfilled with a value or rejected with an
\* error
Pending == [kind |-> "pending", value |-> "", error |-> NoError]
Fulfilled(value) == [kind |-> "value", value |-> value, error |-> NoError]
Rejected(error) == [kind |-> "error", value |-> "", error |-> error]

\* timePromise(name, promise) up to its await: the timer is started
timePromise(s, name) == startTimer(s, name)

\* timePromise() after its await, with timer.end() in the try block only
timePromiseResumeNoFinally(s, h, outcome) ==
    IF outcome.kind = "value"
    THEN [s |-> timerEnd(s, h), settled |-> Fulfilled(outcome.value)]
    ELSE [s |-> s, settled |-> Rejected(outcome.error)]

\* timePromise() after its await: the value is returned or the error is
\* rethrown, and the finally block ends the timer h before either leaves
timePromiseResume(s, h, outcome) ==
    IF outcome.kind = "value"
    THEN [s |-> timerEnd(s, h), settled |-> Fulfilled(outcome.value)]
    ELSE [s |-> timerEnd(s, h), settled |-> Rejected(outcome.error)]

NewWait == [st |-> "idle", snap |-> {}, err |-> NoError]

Init ==
    /\ now = StartedAt
    /\ status = "running"
    /\ endedAt = 0
    /\ stack = <<>>
    /\ errors = <<>>
    /\ timeout = "none"
    /\ timeoutError = NoError
    /\ procs = <<>>
    /\ lockState = TRUE
    /\ waiters = <<>>
    /\ kTimer = FALSE
    /\ waits = [w \in WaitIds |-> NewWait]
    /\ entries = <<>>
    /\ cumulative = <<>>
    /\ timers = <<>>
    /\ resolved = <<>>
    /\ json = NoJSON
    /\ setCalls = <<>>
    /\ timerEnds = <<>>
    /\ timed = <<>>

\* ---------------------------------------------------------------- actions
\* a call by a caller: the state the call leaves, whether it returns or throws
Called(r) == Commit(r.s)

StackRoom == Len(stack) < MaxStack \/ status # "running"

Tick ==
    /\ now < MaxTime
    /\ now' = now + 1
    /\ UNCHANGED <<status, endedAt, stack, errors, timeout, timeoutError, procs,
                   lockState, waiters, kTimer, waits, entries, cumulative,
                   timers, resolved, json, setCalls, timerEnds, timed>>

SetValues(v) ==
    /\ StackRoom
    /\ Called(setValues(Cur, v))
    /\ setCalls' = IF status = "running" THEN Append(setCalls, v) ELSE setCalls
    /\ UNCHANGED <<timerEnds, json, timed>>

Checkpoint ==
    /\ Called(checkpoint(Cur))
    /\ UNCHANGED history

Cancel ==
    /\ Called(cancel(Cur))
    /\ UNCHANGED history

End ==
    /\ Called(end(Cur))
    /\ UNCHANGED history

SetTimeout ==
    /\ Called(setTimeout(Cur))
    /\ UNCHANGED history

CreateError ==
    /\ Called(createError(Cur, MsgUser))
    /\ UNCHANGED history

TimeoutFires ==
    /\ timeout = "scheduled"
    /\ Commit([timeoutCallback(Cur) EXCEPT !.timeout = "fired"])
    /\ UNCHANGED history

StartTimer(n) ==
    /\ Len(timers) < MaxTimers
    /\ Commit(startTimer(Cur, n))
    /\ UNCHANGED history

\* a handle's end() may be called at any time, and more than once
EndTimer(h) ==
    /\ h \in 1..Len(timers)
    /\ Len(entries) < MaxEntries
    /\ Commit(timerEnd(Cur, h))
    /\ timerEnds' = Append(timerEnds, [name |-> timers[h].name,
                                        duration |-> now - timers[h].startedAt])
    /\ UNCHANGED <<setCalls, json, timed>>

\* the stacks new Error() can capture in setValues: the frame of setValues,
\* which is in the library, below any frames, as many as
\* Error.stackTraceLimit allows
RECURSIVE Captures(_)
\* timePromise(n, promise) is called with a promise that has not settled
TimePromise(n) ==
    /\ Len(timers) < MaxTimers
    /\ Commit(timePromise(Cur, n))
    /\ timed' = Append(timed, [h |-> Len(timers) + 1, under |-> Pending,
                               outer |-> Pending])
    /\ UNCHANGED <<setCalls, timerEnds, json>>

AwaitableResolves(k, v) ==
    /\ k \in 1..Len(timed)
    /\ timed[k].under.kind = "pending"
    /\ timed' = [timed EXCEPT ![k].under = Fulfilled(v)]
    /\ UNCHANGED <<now, status, endedAt, stack, errors, timeout, timeoutError,
                   procs, lockState, waiters, kTimer, waits, entries, cumulative,
                   timers, resolved, json, setCalls, timerEnds>>

AwaitableRejects(k, m) ==
    /\ k \in 1..Len(timed)
    /\ timed[k].under.kind = "pending"
    /\ timed' = [timed EXCEPT ![k].under = Rejected(PlainError(m))]
    /\ UNCHANGED <<now, status, endedAt, stack, errors, timeout, timeoutError,
                   procs, lockState, waiters, kTimer, waits, entries, cumulative,
                   timers, resolved, json, setCalls, timerEnds>>

\* the continuation of timePromise() runs once its promise has settled
TimePromiseResume(k) ==
    /\ k \in 1..Len(timed)
    /\ timed[k].under.kind # "pending"
    /\ timed[k].outer.kind = "pending"
    /\ \E r \in {timePromiseResume(Cur, timed[k].h, timed[k].under)} :
          /\ Commit(r.s)
          /\ timed' = [timed EXCEPT ![k].outer = r.settled]
          /\ timerEnds' = IF Len(r.s.entries) > Len(entries)
                          THEN Append(timerEnds,
                                   [name |-> timers[timed[k].h].name,
                                    duration |-> now - timers[timed[k].h].startedAt])
                          ELSE timerEnds
    /\ UNCHANGED <<setCalls, json>>

Captures(n) ==
    IF n = 0 THEN {<<>>}
    ELSE IF n = 1 THEN {<<>>, <<Line("lib")>>}
    ELSE Captures(n - 1) \cup
         {Append(c, Line(f)) : c \in {x \in Captures(n - 1) : Len(x) = n - 1},
                               f \in Frames}

\* the number of lines captured in the whole trace
RECURSIVE CapturedLines(_)
CapturedLines(q) ==
    IF q = <<>> THEN 0 ELSE Len(Head(q).error) + CapturedLines(Tail(q))

\* setValues called below the frames c
SetValuesFrom(v, c) ==
    /\ StackRoom
    /\ CapturedLines(stack) + Len(c) <= MaxFrames
    /\ Called(setValuesFrom(Cur, v, c))
    /\ setCalls' = IF status = "running" THEN Append(setCalls, v) ELSE setCalls
    /\ UNCHANGED <<timerEnds, json, timed>>

\* toJSON() with process.env.NODE_ENV being 'test' or not
ToJSON(envTest) ==
    /\ json' = toJSON(Cur, envTest)
    /\ UNCHANGED <<now, status, endedAt, stack, errors, timeout, timeoutError,
                   procs, lockState, waiters, kTimer, waits, entries, cumulative,
                   timers, resolved, setCalls, timerEnds, timed>>

ToShortJSON ==
    /\ json' = toShortJSON(Cur)
    /\ UNCHANGED <<now, status, endedAt, stack, errors, timeout, timeoutError,
                   procs, lockState, waiters, kTimer, waits, entries, cumulative,
                   timers, resolved, setCalls, timerEnds, timed>>

\* calls made on the condition variable itself
CondLock ==
    /\ Commit(Cond_lock(Cur))
    /\ UNCHANGED history

CondUnlock ==
    /\ Commit(Cond_unlock(Cur))
    /\ UNCHANGED history

\* a caller that is not suspended calls Cond.wait() and awaits the promise
CondWait(w) ==
    /\ waits[w].st \in {"idle", "woken"}
    /\ Len(resolved) < MaxResolved
    /\ Commit(CondWaitCall(Cur, w))
    /\ UNCHANGED history

CondSignal ==
    /\ Commit(Cond_signal(Cur))
    /\ UNCHANGED history

AddBackgroundProcess ==
    /\ Len(procs) < MaxProcs
    /\ Called(addBackgroundProcess(Cur))
    /\ UNCHANGED history

\* a background process calls setValues; an error thrown there is not caught
\* by the process and rejects its promise
ProcessSetValues(i, v) ==
    /\ i \in 1..Len(procs)
    /\ procs[i].under = "pending"
    /\ StackRoom
    /\ \E r \in {setValues(Cur, v)} :
          Commit(IF Threw(r)
                 THEN [r.s EXCEPT !.procs[i].under = "rejected",
                                  !.procs[i].message = r.thrown.message]
                 ELSE r.s)
    /\ setCalls' = IF status = "running" THEN Append(setCalls, v) ELSE setCalls
    /\ UNCHANGED <<timerEnds, json, timed>>

ProcessResolves(i) ==
    /\ i \in 1..Len(procs)
    /\ procs[i].under = "pending"
    /\ procs' = [procs EXCEPT ![i].under = "resolved"]
    /\ UNCHANGED <<now, status, endedAt, stack, errors, timeout, timeoutError,
                   lockState, waiters, kTimer, waits, entries, cumulative,
                   timers, resolved, json, setCalls, timerEnds, timed>>

ProcessRejects(i, m) ==
    /\ i \in 1..Len(procs)
    /\ procs[i].under = "pending"
    /\ procs' = [procs EXCEPT ![i].under = "rejected", ![i].message = m]
    /\ UNCHANGED <<now, status, endedAt, stack, errors, timeout, timeoutError,
                   lockState, waiters, kTimer, waits, entries, cumulative,
                   timers, resolved, json, setCalls, timerEnds, timed>>

ProcessSettled(i) ==
    /\ i \in 1..Len(procs)
    /\ procs[i].under # "pending"
    /\ procs[i].wrapper = "pending"
    /\ Commit(processSettled(Cur, i))
    /\ UNCHANGED history

Wait(w) ==
    /\ waits[w].st = "idle"
    /\ \A x \in WaitIds : x < w => waits[x].st # "idle"
    /\ Commit(wait(Cur, w))
    /\ UNCHANGED history

WaitResume(w) ==
    /\ waits[w].st \in {"woken", "wokenRej"}
    /\ Commit(waitResume(Cur, w))
    /\ UNCHANGED history

\* The calls, callbacks and reactions of one operation, all within one
\* reading of the clock.
Next ==
    \/ \E v \in Values : SetValues(v)
    \/ Checkpoint
    \/ Cancel
    \/ End
    \/ SetTimeout
    \/ CreateError
    \/ TimeoutFires
    \/ AddBackgroundProcess
    \/ \E i \in 1..MaxProcs, v \in Values : ProcessSetValues(i, v)
    \/ \E i \in 1..MaxProcs : ProcessResolves(i)
    \/ \E i \in 1..MaxProcs, m \in RejectMessages : ProcessRejects(i, m)
    \/ \E i \in 1..MaxProcs : ProcessSettled(i)
    \/ \E w \in WaitIds : Wait(w)
    \/ \E w \in WaitIds : WaitResume(w)

Spec == Init /\ [][Next]_vars

\* The calls, the timer and the background processes of one operation, with
\* the clock advancing between them.
TimedNext ==
    \/ Tick
    \/ \E v \in Values : SetValues(v)
    \/ Checkpoint
    \/ Cancel
    \/ End
    \/ SetTimeout
    \/ CreateError
    \/ TimeoutFires
    \/ AddBackgroundProcess
    \/ \E i \in 1..MaxProcs : ProcessResolves(i)
    \/ \E i \in 1..MaxProcs, m \in RejectMessages : ProcessRejects(i, m)
    \/ \E i \in 1..MaxProcs : ProcessSettled(i)

TimedSpec == Init /\ [][TimedNext]_vars

\* The timers of one operation and what terminates it, with the clock
\* advancing between the calls.
MetricsNext ==
    \/ Tick
    \/ \E n \in TimerNames : StartTimer(n)
    \/ \E h \in 1..MaxTimers : EndTimer(h)
    \/ Cancel
    \/ End
    \/ CreateError
    \/ SetTimeout
    \/ TimeoutFires

MetricsSpec == Init /\ [][MetricsNext]_vars

\* Promises timed by timePromise, settling as the clock advances, on an
\* operation that may be cancelled meanwhile.
TimePromiseNext ==
    \/ Tick
    \/ \E n \in TimerNames : TimePromise(n)
    \/ \E k \in 1..MaxTimers, v \in Values : AwaitableResolves(k, v)
    \/ \E k \in 1..MaxTimers, m \in RejectMessages : AwaitableRejects(k, m)
    \/ \E k \in 1..MaxTimers : TimePromiseResume(k)
    \/ Cancel

TimePromiseSpec == Init /\ [][TimePromiseNext]_vars

\* What the operation records: the trace, the errors and the metrics, all
\* within one reading of the clock.
RecordsNext ==
    \/ \E v \in Values : SetValues(v)
    \/ \E n \in TimerNames : StartTimer(n)
    \/ \E h \in 1..MaxTimers : EndTimer(h)
    \/ Cancel
    \/ End
    \/ CreateError
    \/ TimeoutFires
    \/ SetTimeout

RecordsSpec == Init /\ [][RecordsNext]_vars

\* The trace and its serialization: setValues called from anywhere, the
\* operation ended or cancelled, and the two JSON forms taken at any point.
JSONNext ==
    \/ \E v \in Values, c \in Captures(MaxFrames) : SetValuesFrom(v, c)
    \/ Cancel
    \/ End
    \/ \E envTest \in BOOLEAN : ToJSON(envTest)
    \/ ToShortJSON

JSONSpec == Init /\ [][JSONNext]_vars

\* The condition variable alone, with callers that lock it, unlock it and
\* wait on it in any order.
CondNext ==
    \/ CondLock
    \/ CondUnlock
    \/ \E w \in WaitIds : CondWait(w)

CondSpec == Init /\ [][CondNext]_vars

\* The condition variable under every call of its interface, signal()
\* included.
CondAnyNext ==
    \/ CondLock
    \/ CondUnlock
    \/ CondSignal
    \/ \E w \in WaitIds : CondWait(w)

CondAnySpec == Init /\ [][CondAnyNext]_vars

\* The lifecycle without the trace: setValues and checkpoint change neither
\* the status nor a promise, and a process that dies of a throwing setValues
\* rejects like any other.
LifeNext ==
    \/ Cancel
    \/ End
    \/ SetTimeout
    \/ CreateError
    \/ TimeoutFires
    \/ AddBackgroundProcess
    \/ \E i \in 1..MaxProcs : ProcessResolves(i)
    \/ \E i \in 1..MaxProcs, m \in RejectMessages : ProcessRejects(i, m)
    \/ \E i \in 1..MaxProcs : ProcessSettled(i)
    \/ \E w \in WaitIds : Wait(w)
    \/ \E w \in WaitIds : WaitResume(w)

\* The event loop runs every queued reaction and continuation, and a
\* scheduled timer that is not cleared fires.
FairSpec ==
    /\ Init /\ [][LifeNext]_vars
    /\ WF_vars(TimeoutFires)
    /\ \A i \in 1..MaxProcs : WF_vars(ProcessSettled(i))
    /\ \A w \in WaitIds : WF_vars(WaitResume(w))

\* ----------------------------------------------------------------- claims
Unsettled(w) == waits[w].st \in {"pending", "woken", "wokenRej"}
Settled(w) == waits[w].st \in {"resolved", "rejected"}
ProcIds == 1..Len(procs)

\* the steps of TimeoutFires, ProcessSettled(i) and WaitResume(w), told by
\* what each of them alone changes
TimeoutFiresStep == timeout = "scheduled" /\ timeout' = "fired"
ProcessSettledStep(i) ==
    i \in ProcIds /\ procs[i].wrapper = "pending" /\ procs'[i].wrapper # "pending"
WaitResumeStep(w) == Unsettled(w) /\ Settled(w)'

\* C1: once the operation has left running (by cancel(), end(), a fired
\* timeout or any other cause), every call to setValues, cancel and end
\* throws, in every later state, and isRunning() stays false.
C1_NoMutationAfterTerminal ==
    /\ [](status # "running" =>
            /\ \A v \in Values : Threw(setValues(Cur, v))
            /\ Threw(cancel(Cur))
            /\ Threw(end(Cur))
            /\ ~isRunning(Cur))
    /\ [][status # "running" => status' # "running"]_vars

\* a cancelled operation with entries in its trace, whose timeout has fired
C1_Witness ==
    /\ status = "cancelled"
    /\ Len(stack) = 2
    /\ timeout = "fired"

\* C2: the trace holds one entry per setValues call made while running, in
\* call order, the i-th entry holding the values of the i-th call.
C2_TraceMatchesCalls ==
    /\ Len(stack) = Len(setCalls)
    /\ \A i \in 1..Len(stack) : stack[i].values = setCalls[i]

C2_Witness ==
    /\ Len(setCalls) = 2
    /\ setCalls[1] # setCalls[2]
    /\ status = "ended"

\* C3: a timeout that fires while the operation is running fails it at that
\* moment: status becomes failed, one error saying "timed out" is recorded
\* and kept as timeoutError, the waiters are released; from then on
\* isRunning() is false and setValues throws that error, trace unchanged.
C3_TimeoutFails ==
    /\ [][(TimeoutFiresStep /\ status = "running") =>
             /\ status' = "failed"
             /\ Len(errors') = Len(errors) + 1
             /\ errors'[Len(errors')].message = MsgTimedOut
             /\ timeoutError' = errors'[Len(errors')]
             /\ waiters' = <<>> /\ ~lockState'
             /\ \A w \in WaitIds : waits'[w].st # "pending"]_vars
    /\ [](timeoutError # NoError =>
             /\ ~isRunning(Cur)
             /\ \A v \in Values :
                    /\ setValues(Cur, v).thrown = timeoutError
                    /\ setValues(Cur, v).s.stack = stack)

C3_Witness ==
    /\ timeoutError # NoError
    /\ timeoutError.message = MsgTimedOut
    /\ Len(stack) = 1
    /\ \E w \in WaitIds : waits[w].st = "rejected" /\ waits[w].err = timeoutError

\* C4: after a timeout has fired on the running operation, checkpoint,
\* setValues, cancel, end and addBackgroundProcess all throw the one error
\* object kept as timeoutError, which is the recorded OperationError.
C4_SameTimeoutError ==
    timeoutError # NoError =>
        /\ timeoutError.kind = "OperationError"
        /\ \E k \in 1..Len(errors) : errors[k] = timeoutError
        /\ checkpoint(Cur).thrown = timeoutError
        /\ \A v \in Values : setValues(Cur, v).thrown = timeoutError
        /\ cancel(Cur).thrown = timeoutError
        /\ end(Cur).thrown = timeoutError
        /\ addBackgroundProcess(Cur).thrown = timeoutError

C4_Witness ==
    /\ timeoutError # NoError
    /\ timeout = "fired"
    /\ Len(procs) = 1
    /\ \E w \in WaitIds : waits[w].st = "rejected"

\* C5: with a timeout registered on the running operation, and the timer
\* firing unless it is cleared, the operation eventually leaves running, and
\* every wait() that has not settled when the timeout has fired eventually
\* rejects.
C5_TimeoutEndsWaits ==
    /\ (timeout = "scheduled" /\ status = "running") ~> (status # "running")
    /\ \A w \in WaitIds :
          (timeoutError # NoError /\ Unsettled(w)) ~> (waits[w].st = "rejected")

C5_Witness ==
    /\ timeoutError # NoError
    /\ \A w \in WaitIds : waits[w].st = "rejected" /\ waits[w].err = timeoutError

\* C6: end() throws, and does not set the status to ended, whenever a
\* registered background process has not yet settled (the status is ended
\* after such a call only if it was ended before it).
C6_EndFailsWithProcesses ==
    (\E i \in ProcIds : procs[i].under = "pending") =>
        /\ Threw(end(Cur))
        /\ status # "ended" => end(Cur).s.status # "ended"

\* end() was refused because of a process that is still pending
C6_Witness ==
    /\ Len(procs) >= 1
    /\ procs[1].under = "pending"
    /\ status = "failed"
    /\ Len(errors) = 1
    /\ errors[1].message = MsgBackground

C9_ProcessThenWait ==
    /\ [](\A w \in WaitIds :
            (/\ Len(procs) = 1
             /\ procs[1].under = "resolved"
             /\ procs[1].wrapper = "fulfilled"
             /\ errors = <<>>
             /\ Settled(w)) => waits[w].st = "resolved")
    /\ [][/\ \A i \in 1..MaxProcs, v \in Values :
               (status = "running" /\ ProcessSetValues(i, v)) =>
                   /\ procs'[i].under = "pending"
                   /\ stack' = Append(stack, Entry(v, CallerStack, now))
          /\ Len(stack') >= Len(stack)
          /\ SubSeq(stack', 1, Len(stack)) = stack
          /\ \A i \in 1..MaxProcs :
               (ProcessSettledStep(i) /\ procs[i].under = "resolved") =>
                   /\ procs'[i].wrapper = "fulfilled"
                   /\ errors' = errors
                   /\ status' = status]_vars

C9_Witness ==
    /\ status = "running"
    /\ Len(procs) = 1
    /\ procs[1].under = "resolved"
    /\ procs[1].wrapper = "fulfilled"
    /\ Len(stack) = 1
    /\ waits[1].st = "resolved"
    /\ waits[2].st = "idle"

\* C10: when a registered process rejects with message m and the operation
\* is still running as the rejection is handled, the status becomes failed
\* and an error with message m is recorded, the first error; every wait()
\* that resumes afterwards rejects with that error.
C10_ProcessRejection ==
    [][/\ \A i \in 1..MaxProcs :
            (ProcessSettledStep(i) /\ procs[i].under = "rejected"
                /\ status = "running") =>
                /\ status' = "failed"
                /\ Len(errors') = 1
                /\ errors'[1].kind = "OperationError"
                /\ errors'[1].message = procs[i].message
                /\ \A w \in WaitIds : waits'[w].st # "pending"
       /\ \A w \in WaitIds :
            (/\ WaitResumeStep(w)
             /\ \E i \in ProcIds :
                   procs[i].under = "rejected" /\ procs[i].wrapper = "fulfilled") =>
                /\ waits'[w].st = "rejected"
                /\ waits'[w].err = errors[1]
                /\ \A i \in ProcIds :
                     (procs[i].under = "rejected" /\ procs[i].wrapper = "fulfilled")
                        => waits'[w].err.message = procs[i].message]_vars

C10_Witness ==
    /\ status = "failed"
    /\ Len(procs) = 1
    /\ procs[1].under = "rejected"
    /\ procs[1].message = "boom"
    /\ procs[1].wrapper = "fulfilled"
    /\ Len(errors) = 1
    /\ errors[1].message = "boom"
    /\ \E w \in WaitIds : waits[w].st = "rejected" /\ waits[w].err = errors[1]

\* C11, as stated: every rejection of a registered process is converted into
\* a context error carrying the message of the rejection and recorded in the
\* errors, whatever the status when the rejection is handled.
C11_AsStated ==
    [][\A i \in 1..MaxProcs :
          (ProcessSettledStep(i) /\ procs[i].under = "rejected") =>
              /\ Len(errors') = Len(errors) + 1
              /\ errors'[Len(errors')].kind = "OperationError"
              /\ errors'[Len(errors')].message = procs[i].message]_vars

\* C12: once setTimeout has been called, every further call of setTimeout
\* throws, in every status and whether the first timeout is still scheduled,
\* has fired or was cleared by end(); no second callback is scheduled: the
\* failing call leaves the timer as it is, and a timer that has fired or
\* was cleared is never scheduled again.
C12_SecondTimeoutFails ==
    /\ [](timeout # "none" =>
            /\ Threw(setTimeout(Cur))
            /\ setTimeout(Cur).s.timeout = timeout)
    /\ [][/\ timeout # "none" => timeout' # "none"
          /\ timeout \in {"fired", "cleared"} => timeout' = timeout]_vars

\* a second setTimeout failed the running operation, and the first timer
\* fired afterwards
C12_Witness ==
    /\ timeout = "fired"
    /\ Len(errors) = 1
    /\ errors[1].message = MsgSecondTimeout
    /\ status = "failed"

\* C13, as stated: createError(message) called in any status returns a new
\* error without throwing, leaves the status failed and appends the error
\* it returns to the errors.
C13_AsStated ==
    LET r == createError(Cur, MsgUser) IN
    /\ ~Threw(r)
    /\ r.value.kind = "OperationError"
    /\ r.value.message = MsgUser
    /\ r.s.status = "failed"
    /\ r.s.errors = Append(errors, r.value)

\* C14, as stated: every error thrown by checkpoint, setValues, cancel, end,
\* setTimeout or addBackgroundProcess is an element of the errors when it is
\* thrown, and so is the error of every rejected wait().
C14_AsStated ==
    LET Recorded(r) ==
            Threw(r) => \E k \in 1..Len(r.s.errors) : r.s.errors[k] = r.thrown
    IN  /\ Recorded(checkpoint(Cur))
        /\ \A v \in Values : Recorded(setValues(Cur, v))
        /\ Recorded(cancel(Cur))
        /\ Recorded(end(Cur))
        /\ Recorded(setTimeout(Cur))
        /\ Recorded(addBackgroundProcess(Cur))
        /\ \A w \in WaitIds :
              waits[w].st = "rejected" =>
                  \E k \in 1..Len(errors) : errors[k] = waits[w].err

Terminal == {"ended", "cancelled", "failed"}

\* C15: the status starts at running; once it has left running it is never
\* running again; a terminal status (ended, cancelled, failed) changes to
\* failed or not at all, never to ended or cancelled.
C15_StatusMonotonic ==
    /\ status = "running"
    /\ [](status \in Terminal \cup {"running"})
    /\ [][/\ status # "running" => status' # "running"
          /\ status \in Terminal => status' \in {status, "failed"}]_vars

\* an ended operation on which a later createError (that of a rejected
\* process) was attempted
C15_Witness ==
    /\ status = "ended"
    /\ Len(procs) = 1
    /\ procs[1].under = "rejected"
    /\ procs[1].wrapper = "rejected"

\* C16: endedAt is unset exactly while the status is running; once set it
\* never changes, whatever the clock does afterwards; when set it is not
\* before startedAt.
C16_EndedAt ==
    /\ []((endedAt = 0) <=> (status = "running"))
    /\ [](endedAt # 0 => endedAt >= StartedAt)
    /\ [][endedAt # 0 => endedAt' = endedAt]_vars

\* a cancelled operation on which createError was attempted (for a rejected
\* process) after the clock had advanced
C16_Witness ==
    /\ status = "cancelled"
    /\ endedAt # 0
    /\ endedAt < now
    /\ Len(procs) = 1
    /\ procs[1].wrapper = "rejected"

\* C17: end() on a running operation with no background process registered
\* (a running operation has no fired timeout) returns: the status becomes
\* ended, endedAt is set, the waiters are released, and a scheduled timeout
\* is cleared; a cleared timeout never fires and the status stays ended.
C17_EndSucceeds ==
    /\ []((status = "running" /\ procs = <<>>) =>
            LET r == end(Cur) IN
            /\ ~Threw(r)
            /\ r.s.status = "ended"
            /\ r.s.endedAt = now
            /\ ~r.s.lockState
            /\ r.s.waiters = <<>>
            /\ \A w \in WaitIds : r.s.waits[w].st # "pending"
            /\ r.s.timeout = IF timeout = "scheduled" THEN "cleared" ELSE timeout)
    /\ [](status = "running" => timeoutError = NoError)
    /\ [][/\ timeout = "cleared" => timeout' = "cleared"
          /\ status = "ended" => status' = "ended"]_vars

\* an operation ended with its timeout pending and a caller in wait()
C17_Witness ==
    /\ status = "ended"
    /\ endedAt # 0
    /\ timeout = "cleared"
    /\ procs = <<>>
    /\ waits[1].st = "resolved"

\* C18: cancel() on a running operation returns and sets the status to
\* cancelled; on the cancelled operation a further cancel() throws and so
\* does every checkpoint(), in every later state: the operation never runs
\* again, and checkpoint() throws whenever it is not running.
C18_CancelOnce ==
    /\ [](status = "running" =>
            /\ ~Threw(cancel(Cur))
            /\ cancel(Cur).s.status = "cancelled"
            /\ Threw(cancel(cancel(Cur).s))
            /\ Threw(checkpoint(cancel(Cur).s)))
    /\ [](status # "running" => Threw(cancel(Cur)) /\ Threw(checkpoint(Cur)))
    /\ [][status = "cancelled" => status' # "running"]_vars

\* a cancelled operation, some calls later
C18_Witness ==
    /\ status = "cancelled"
    /\ timeout = "fired"
    /\ Len(procs) = 1
    /\ waits[1].st = "resolved"

\* the number of timers named n among the timers ended, and the sum of their
\* durations
RECURSIVE EndedCount(_, _)
EndedCount(q, n) ==
    IF q = <<>> THEN 0
    ELSE (IF Head(q).name = n THEN 1 ELSE 0) + EndedCount(Tail(q), n)

RECURSIVE EndedDuration(_, _)
EndedDuration(q, n) ==
    IF q = <<>> THEN 0
    ELSE (IF Head(q).name = n THEN Head(q).duration ELSE 0)
            + EndedDuration(Tail(q), n)

\* C19: for each timer name n the cumulative metrics hold at most one entry
\* for n (one when a timer named n has ended, none otherwise); its number
\* of events is the number of ended timers named n and its total duration
\* the sum of their durations.
C19_CumulativeMetrics ==
    \A n \in TimerNames :
        LET idx == {k \in 1..Len(cumulative) : cumulative[k].name = n} IN
        /\ Cardinality(idx) <= 1
        /\ (idx = {}) <=> (EndedCount(timerEnds, n) = 0)
        /\ \A k \in idx :
              /\ cumulative[k].numberOfEvents = EndedCount(timerEnds, n)
              /\ cumulative[k].totalDuration = EndedDuration(timerEnds, n)

\* two timers named x have ended, with durations 1 and 0
C19_Witness ==
    /\ Len(timerEnds) = 2
    /\ timerEnds[1] = [name |-> "x", duration |-> 1]
    /\ timerEnds[2] = [name |-> "x", duration |-> 0]
    /\ Len(cumulative) = 1
    /\ cumulative[1].numberOfEvents = 2
    /\ cumulative[1].totalDuration = 1

\* C20: the end() of a timer handle never throws and never checkpoints, in
\* any status, terminated and timed out included: it appends exactly one
\* metric entry, that of its timer, and leaves status, trace, errors and
\* endedAt as they are.
C20_TimerEndFrame ==
    \A h \in 1..Len(timers) :
        LET r == timerEnd(Cur, h) IN
        /\ r.entries = Append(entries,
                              [name |-> timers[h].name,
                               startedAt |-> timers[h].startedAt,
                               duration |-> now - timers[h].startedAt,
                               percentage |-> Sentinel])
        /\ r.status = status
        /\ r.stack = stack
        /\ r.errors = errors
        /\ r.endedAt = endedAt
        /\ r.timeoutError = timeoutError

\* a timer ended after the operation had timed out
C20_Witness ==
    /\ status = "failed"
    /\ timeoutError # NoError
    /\ Len(entries) >= 1
    /\ entries[Len(entries)].percentage = Sentinel
    /\ Len(errors) = 1

C22_AsStated == \A i \in ProcIds : procs[i].wrapper = "pending"

\* C23: Cond.unlock() sets the state to released and, within the call,
\* resolves every waiter queued at that moment, in the order of the queue,
\* which is the order in which the waiters called wait(): the queue only
\* grows at its end and shrinks at its head; it is empty when unlock()
\* returns.
C23_UnlockFIFO ==
    /\ [](LET r == Cond_unlock(Cur) IN
            /\ ~r.lockState
            /\ r.waiters = <<>>
            /\ r.resolved = resolved \o waiters
            /\ \A k \in 1..Len(waiters) : r.waits[waiters[k]].st = "woken")
    /\ [][\/ \E w \in WaitIds : waiters' = Append(waiters, w)
          \/ \E k \in 1..(Len(waiters) + 1) :
                waiters' = SubSeq(waiters, k, Len(waiters))]_vars

\* two callers queued, the second caller first, and were resolved by one
\* unlock() in that order
C23_Witness ==
    /\ resolved = <<2, 1>>
    /\ waiters = <<>>
    /\ ~lockState
    /\ \A w \in WaitIds : waits[w].st = "woken"

\* C24: Cond.wait() resolves at once and does not enqueue the caller when
\* the state is released; when the state is held it enqueues the caller,
\* whose promise stays pending, in the queue, until an unlock() resolves it.
C24_WaitSuspends ==
    /\ [](\A w \in WaitIds :
            waits[w].st \in {"idle", "woken"} =>
                LET r == CondWaitCall(Cur, w) IN
                IF lockState
                THEN /\ r.waiters = Append(waiters, w)
                     /\ r.waits[w].st = "pending"
                     /\ r.resolved = resolved
                ELSE /\ r.waiters = waiters
                     /\ r.waits[w].st = "woken"
                     /\ r.resolved = Append(resolved, w))
    /\ [](\A w \in WaitIds :
            waits[w].st = "pending" <=> \E k \in 1..Len(waiters) : waiters[k] = w)
    /\ [][\A w \in WaitIds :
            (waits[w].st = "pending" /\ waits'[w].st # "pending") =>
                /\ ~lockState'
                /\ waiters' = <<>>
                /\ waits'[w].st = "woken"]_vars

\* one caller passed while the state was released; after a lock() another
\* caller is suspended
C24_Witness ==
    /\ lockState
    /\ resolved = <<2>>
    /\ waits[2].st = "woken"
    /\ waits[1].st = "pending"
    /\ waiters = <<1>>

\* C25, as stated: for every trace entry, whatever stack was captured, the
\* stacktrace of toShortJSON() has at most one line and the stacktrace of
\* toJSON() for the same entry has at least as many lines as it.
C25_AsStated ==
    \A k \in 1..Len(stack), envTest \in BOOLEAN :
        LET short == toShortJSON(Cur).trace[k].stacktrace
            long == toJSON(Cur, envTest).trace[k].stacktrace
        IN  /\ Len(short) <= 1
            /\ Len(long) >= Len(short)

C27_LateTimeoutNoOp ==
    /\ [][(TimeoutFiresStep /\ status # "running") =>
             /\ status' = status
             /\ errors' = errors
             /\ endedAt' = endedAt
             /\ timeoutError' = timeoutError
             /\ timeoutError' = NoError
             /\ stack' = stack]_vars
    /\ []((timeout = "fired" /\ timeoutError = NoError) =>
             /\ status # "running"
             /\ Threw(checkpoint(Cur))
             /\ checkpoint(Cur).thrown.message \in {MsgNotRunning, MsgCannotChange}
             /\ \A k \in 1..Len(errors) : errors[k].message # MsgTimedOut)

\* the timeout of a cancelled operation fired: cancel() does not clear the
\* timer
C27_Witness ==
    /\ timeout = "fired"
    /\ timeoutError = NoError
    /\ status = "cancelled"
    /\ errors = <<>>

\* C29, as stated: the firing of the timeout does not itself change the
\* status.
C29_AsStated == [][TimeoutFiresStep => status' = status]_vars

\* C29, amended: the firing of the timeout on a running operation itself
\* changes the status to failed, sets endedAt and records the timed-out
\* error, which it keeps as timeoutError; the checkpoints after it throw
\* that error and change nothing.
C29_FiringFails ==
    /\ [][(TimeoutFiresStep /\ status = "running") =>
             /\ status' = "failed"
             /\ endedAt' = now
             /\ errors' = Append(errors, timeoutError')
             /\ timeoutError'.kind = "OperationError"
             /\ timeoutError'.message = MsgTimedOut]_vars
    /\ [](timeoutError # NoError =>
             /\ status = "failed"
             /\ checkpoint(Cur).thrown = timeoutError
             /\ checkpoint(Cur).s = Cur)

\* the timeout fired on the running operation, which is failed before any
\* checkpoint has been called
C29_Witness ==
    /\ timeout = "fired"
    /\ timeoutError # NoError
    /\ status = "failed"
    /\ errors = <<timeoutError>>
    /\ stack = <<>>
    /\ procs = <<>>
    /\ \A w \in WaitIds : waits[w].st = "idle"

\* a metric entry without its percentage
Unfilled(e) == [e EXCEPT !.percentage = Sentinel]

\* C28: the trace, the errors and the discrete metric entries only grow at
\* their end: every step keeps each element in its place and as it is, but
\* for the percentage of a metric entry.
C28_AppendOnly ==
    [][/\ Len(stack') >= Len(stack)
       /\ SubSeq(stack', 1, Len(stack)) = stack
       /\ Len(errors') >= Len(errors)
       /\ SubSeq(errors', 1, Len(errors)) = errors
       /\ Len(entries') >= Len(entries)
       /\ \A k \in 1..Len(entries) : Unfilled(entries'[k]) = Unfilled(entries[k])]_vars

\* a trace, an error and the metric entries of two timers, the first of
\* them filled in at the failure and the second ended after it
C28_Witness ==
    /\ status = "failed"
    /\ Len(stack) = 2
    /\ Len(errors) = 1
    /\ Len(entries) = 2
    /\ entries[1].name # entries[2].name
    /\ entries[1].percentage # Sentinel
    /\ entries[2].percentage = Sentinel

\* C30, as stated: every metric percentage is the sentinel -1 while the
\* operation is running, and none is once it has terminated, the entries of
\* the timers ended after the termination included.
C30_AsStated ==
    /\ status = "running" =>
          /\ \A k \in 1..Len(entries) : entries[k].percentage = Sentinel
          /\ \A k \in 1..Len(cumulative) : cumulative[k].totalPercentage = Sentinel
    /\ status # "running" =>
          /\ \A k \in 1..Len(entries) : entries[k].percentage # Sentinel
          /\ \A k \in 1..Len(cumulative) : cumulative[k].totalPercentage # Sentinel

\* C31: addBackgroundProcess registers the wrapped process before it
\* checkpoints: the call returns on a running operation and throws on any
\* other, and in both cases the process is in activeProcesses afterwards,
\* with the wrapper's reactions attached; the wrapper reacts to the
\* rejection of a process that was registered by a throwing call.
C31_RegisterThenCheckpoint ==
    /\ [](LET r == addBackgroundProcess(Cur) IN
            /\ r.s.procs = Append(procs, NewProcess)
            /\ Threw(r) <=> (status # "running")
            /\ timeoutError # NoError => r.thrown = timeoutError
            /\ [r.s EXCEPT !.procs = procs] = Cur)
    /\ [](\A i \in ProcIds :
            (procs[i].under = "rejected" /\ procs[i].wrapper = "pending") =>
                processSettled(Cur, i).procs[i].wrapper # "pending")

\* a process registered on a cancelled operation has rejected and its
\* wrapper has reacted
C31_Witness ==
    /\ status = "cancelled"
    /\ errors = <<>>
    /\ Len(procs) = 1
    /\ procs[1].under = "rejected"
    /\ procs[1].wrapper # "pending"
    /\ timeout = "none"

\* C32 as stated: a wait() settles only when the operation has left running
\* or every process that was registered when it was called has settled; a
\* wait() called with no process registered waits for the termination alone.
\* It is not woken because another wait() released the condition variable
\* while the operation is running.
C32_AsStated ==
    \A w \in WaitIds :
        waits[w].st \in {"woken", "wokenRej"} =>
            \/ status # "running"
            \/ /\ waits[w].snap # {}
               /\ \A i \in waits[w].snap : procs[i].wrapper # "pending"

\* the entries of the metrics named n
EntriesNamed(n) == {e \in 1..Len(entries) : entries[e].name = n}

\* the timePromise calls for the name n that have settled
TimedSettled(n) ==
    {k \in 1..Len(timed) :
        timers[timed[k].h].name = n /\ timed[k].outer.kind # "pending"}

\* C33: timePromise(name, awaitable) ends its timer exactly once, whether
\* the awaitable resolves or rejects: when it settles exactly one metric
\* entry named name is added, none before and none after, and timePromise
\* resolves with the awaitable's value or rejects with the awaitable's error.
C33_TimePromise ==
    /\ [](\A n \in TimerNames :
            Cardinality(EntriesNamed(n)) = Cardinality(TimedSettled(n)))
    /\ [](\A k \in 1..Len(timed) :
            timed[k].outer.kind # "pending" => timed[k].outer = timed[k].under)
    /\ [][\A k \in 1..Len(timed) :
            (timed[k].outer.kind = "pending" /\ timed'[k].outer.kind # "pending") =>
                /\ timed[k].under.kind # "pending"
                /\ entries' = Append(entries,
                       [name |-> timers[timed[k].h].name,
                        startedAt |-> timers[timed[k].h].startedAt,
                        duration |-> now - timers[timed[k].h].startedAt,
                        percentage |-> Sentinel])]_vars

\* one timePromise has resolved with its value and another, of the same name,
\* has rejected with its error, each having added its entry
C33_Witness ==
    /\ Len(timed) = 2
    /\ timed[1].outer = Fulfilled("a")
    /\ timed[2].outer = Rejected(PlainError("boom"))
    /\ timers[1].name = "x"
    /\ timers[2].name = "x"
    /\ Len(entries) = 2
    /\ entries[1].duration = 1

\* C34: in the long JSON form sinceLastEntry is -1 for the first trace entry
\* and, for every later entry, the difference between its createdAt and the
\* createdAt of the entry before it, which is never negative.
C34_SinceLastEntry ==
    \A envTest \in BOOLEAN :
        LET trace == toJSON(Cur, envTest).trace IN
        /\ Len(trace) = Len(stack)
        /\ \A k \in 1..Len(stack) :
              /\ k = 1 => trace[k].sinceLastEntry = -1
              /\ k > 1 =>
                    /\ trace[k].sinceLastEntry =
                           stack[k].createdAt - stack[k - 1].createdAt
                    /\ trace[k].sinceLastEntry >= 0

\* two entries appended at different times
C34_Witness ==
    /\ Len(stack) = 2
    /\ stack[2].createdAt > stack[1].createdAt
    /\ toJSON(Cur, FALSE).trace[2].sinceLastEntry = 1

\* C35: in every reachable state the errors list has at most one element,
\* and status is failed if and only if the errors list is not empty.
C35_OneError ==
    /\ Len(errors) <= 1
    /\ (status = "failed") <=> (errors # <<>>)

\* an operation failed by end(), whose process rejected afterwards: the
\* second createError left the one error recorded
C35_Witness ==
    /\ status = "failed"
    /\ Len(errors) = 1
    /\ errors[1].message = MsgBackground
    /\ Len(procs) = 1
    /\ procs[1].under = "rejected"
    /\ procs[1].wrapper = "rejected"

\* what a call leaves of the status, endedAt, the trace, the errors and the
\* metrics
Recorded(s) ==
    <<s.status, s.endedAt, s.stack, s.errors, s.entries, s.cumulative>>

\* the calls a caller can make on the operation, as their results
CallsOn(s) ==
    {checkpoint(s), cancel(s), end(s), setTimeout(s), createError(s, MsgUser),
     addBackgroundProcess(s)} \cup {setValues(s, v) : v \in Values}

\* C36: on an operation that has left running, checkpoint, setValues, cancel
\* and end throw, and a call that throws leaves status, endedAt, the trace,
\* the errors and the metrics exactly as they were before the call.
C36_ThrowLeavesRecord ==
    status # "running" =>
        /\ Threw(checkpoint(Cur))
        /\ Threw(cancel(Cur))
        /\ Threw(end(Cur))
        /\ \A v \in Values : Threw(setValues(Cur, v))
        /\ \A r \in CallsOn(Cur) : Threw(r) => Recorded(r.s) = Recorded(Cur)

\* a cancelled operation that has a trace and metrics, on which the calls
\* throw
C36_Witness ==
    /\ status = "cancelled"
    /\ endedAt # 0
    /\ Len(stack) = 1
    /\ Len(entries) = 1
    /\ Len(cumulative) = 1
    /\ Threw(setValues(Cur, "a"))
    /\ Threw(createError(Cur, MsgUser))

\* what a call rejected on a running operation leaves: the operation failed,
\* endedAt stamped, the thrown error the only one recorded, the condition
\* variable released and no wait() left suspended
FailedBy(r, message) ==
    /\ Threw(r)
    /\ r.thrown.kind = "OperationError"
    /\ r.thrown.message = message
    /\ r.s.status = "failed"
    /\ r.s.endedAt = now
    /\ r.s.errors = <<r.thrown>>
    /\ r.s.lockState = FALSE
    /\ r.s.waiters = <<>>
    /\ \A w \in WaitIds : r.s.waits[w].st # "pending"

\* the operation failed by a rejected end() or a rejected setTimeout()
FailedByRejectedCall ==
    /\ status = "failed"
    /\ Len(errors) > 0
    /\ errors[1].message \in {MsgBackground, MsgSecondTimeout}

\* C37: a call rejected while the operation is running fails the operation:
\* an end() rejected because background processes are registered, and a
\* setTimeout() rejected because a timeout is already registered, leave the
\* status failed, endedAt set and the thrown error as errors[0], and release
\* the waiters, so that every wait() that settles afterwards rejects with
\* that error.
C37_RejectedCallFails ==
    /\ []((status = "running" /\ Len(procs) > 0) =>
             FailedBy(end(Cur), MsgBackground))
    /\ []((status = "running" /\ timeout # "none") =>
             FailedBy(setTimeout(Cur), MsgSecondTimeout))
    /\ [](FailedByRejectedCall =>
             \A w \in WaitIds : waits[w].st \notin {"pending", "wokenRej"})
    /\ [][FailedByRejectedCall =>
             \A w \in WaitIds :
                WaitResumeStep(w) =>
                    /\ waits'[w].st = "rejected"
                    /\ waits'[w].err = errors[1]]_vars

\* a second setTimeout() failed the operation and both wait() calls rejected
\* with its error
C37_Witness ==
    /\ status = "failed"
    /\ endedAt # 0
    /\ Len(errors) = 1
    /\ errors[1].message = MsgSecondTimeout
    /\ \A w \in WaitIds : waits[w].st = "rejected" /\ waits[w].err = errors[1]

\* C38: end() returns only on an operation on which addBackgroundProcess
\* was never called: once a process is registered every end() throws, also
\* after all the processes have settled and wait() has resolved, and no step
\* takes such an operation to the status ended.
C38_EndNeedsNoProcessEver ==
    /\ [](~Threw(end(Cur)) => procs = <<>>)
    /\ [](Len(procs) > 0 =>
             /\ Threw(end(Cur))
             /\ end(Cur).s.status = IF status = "running" THEN "failed" ELSE status)
    /\ [][Len(procs) > 0 => (status' = "ended" => status = "ended")]_vars
    /\ [][(status # "ended" /\ status' = "ended") => procs' = <<>>]_vars

\* the process resolved, wait() resolved, and the end() that followed failed
\* the operation
C38_Witness ==
    /\ Len(procs) = 1
    /\ procs[1].under = "resolved"
    /\ procs[1].wrapper = "fulfilled"
    /\ waits[1].st = "resolved"
    /\ status = "failed"
    /\ errors[1].message = MsgBackground

\* what wait() may not change: everything but the condition variable and
\* the wait() calls themselves
KeptByWait(s) ==
    <<s.now, s.status, s.endedAt, s.stack, s.errors, s.timeout, s.timeoutError,
      s.procs, s.entries, s.cumulative, s.timers>>

\* C39: wait() never changes status, endedAt, the trace or the errors, at
\* its call or when it resumes: its only effect on the operation is to
\* release the condition variable.  A wait() that settles while the
\* operation is running resolves and leaves it running with endedAt unset.
C39_WaitOnlyReleases ==
    /\ [](\A w \in WaitIds :
            /\ waits[w].st = "idle" => KeptByWait(wait(Cur, w)) = KeptByWait(Cur)
            /\ waits[w].st \in {"woken", "wokenRej"} =>
                  /\ KeptByWait(waitResume(Cur, w)) = KeptByWait(Cur)
                  /\ waitResume(Cur, w).waiters = <<>>
                  /\ waits[w].st = "woken" =>
                        waitResume(Cur, w).lockState = FALSE)
    /\ [][\A w \in WaitIds :
            (WaitResumeStep(w) \/ (waits[w].st = "idle" /\ waits'[w].st # "idle")) =>
                UNCHANGED <<status, endedAt, stack, errors>>]_vars
    /\ [][\A w \in WaitIds :
            (WaitResumeStep(w) /\ status = "running") =>
                /\ waits'[w].st = "resolved"
                /\ status' = "running"
                /\ endedAt' = 0]_vars

\* wait() resolved once its process had resolved; the operation, with its
\* trace, is running still and the condition variable is released
C39_Witness ==
    /\ status = "running"
    /\ endedAt = 0
    /\ errors = <<>>
    /\ Len(stack) = 1
    /\ Len(procs) = 1
    /\ procs[1].wrapper = "fulfilled"
    /\ waits[1].st = "resolved"
    /\ waits[2].st = "idle"
    /\ lockState = FALSE

\* C40 as stated: under any sequence of lock, unlock, signal and wait,
\* waiters are queued only while the state is held, and the stall timer is
\* active exactly when at least one waiter is queued.
C40_AsStated ==
    /\ waiters # <<>> => lockState = TRUE
    /\ (kTimer = TRUE) <=> (waiters # <<>>)

====
